---- MODULE Spec2Model ----
(***************************************************************************)
(* A model of authentik's configuration loader (authentik/lib/config.py):  *)
(* the Path Accessor, the Value Cell (Attr), the URI resolver, the merge,  *)
(* the load sequence of ConfigLoader.__init__, the deprecation migration,  *)
(* and the public operations set / patch / refresh / update_from_* and the *)
(* typed getters.                                                          *)
(*                                                                         *)
(* Python values are records tagged by "kind".  A dict keeps its insertion *)
(* order: its items are a sequence of <<key, value>> pairs.  An operation  *)
(* that can raise returns [exc, val]: exc = "" on a normal return, else    *)
(* the name of the exception; for an operation that mutates its argument   *)
(* in place val is the argument as the operation left it.                  *)
(***************************************************************************)
EXTENDS Integers, Sequences, FiniteSets, TLC

VARIABLES
    config,             \* ConfigLoader.__config: the tree
    pc,                 \* position in ConfigLoader.__init__, then "ready" / "failed"
    idx,                \* index of the next SEARCH_PATHS entry (the for loop of __init__)
    error,              \* the exception that ended __init__ ("" while none)
    osenv,              \* os.environ: a sequence of <<name, value>>
    files,              \* the file system: path -> state of the file
    kwargs,             \* the keyword arguments given to the constructor
    events_importable,  \* whether "from authentik.events.models import ..." succeeds
    patches,            \* the active patch() context managers, innermost last
    last,               \* the last public operation and how it ended
    nops,               \* number of public operations done since load
    merged,             \* history: the sources merged so far, in merge order
    premigration,       \* history: the tree when check_deprecations was entered
    migrated            \* history: the deprecation entries migrated, in order

vars == <<config, pc, idx, error, osenv, files, kwargs, events_importable,
          patches, last, nops, merged, premigration, migrated>>

----------------------------------------------------------------------------
(* Python values *)

PyNone == [kind |-> "none"]
PyBool(b) == [kind |-> "bool", b |-> b]
PyInt(i) == [kind |-> "int", i |-> i]
PyStr(s) == [kind |-> "str", s |-> s]
PyList(es) == [kind |-> "list", elems |-> es]
PyDict(its) == [kind |-> "dict", items |-> its]
EmptyDict == PyDict(<<>>)
\* class UNSET, used as a sentinel default
UNSET == [kind |-> "class", name |-> "UNSET"]
\* a pathlib.Path object
PathObj(p) == [kind |-> "Path", p |-> p]

Ret(v) == [exc |-> "", val |-> v]
Raise(e, v) == [exc |-> e, val |-> v]

\* dataclass Attr: the record of a constructed instance
AttrRec(value, source_type, source) ==
    [kind |-> "attr", value |-> value, source_type |-> source_type, source |-> source]

\* Attr(value, source_type, source): construction, with __post_init__
Attr(value, source_type, source) ==
    IF value.kind = "attr"
    THEN Raise("RuntimeError", PyNone)
    ELSE Ret(AttrRec(value, source_type, source))

\* bool(v): Python truthiness
Truthy(v) ==
    CASE v.kind = "none" -> FALSE
      [] v.kind = "bool" -> v.b
      [] v.kind = "int" -> v.i # 0
      [] v.kind = "str" -> v.s # ""
      [] v.kind = "list" -> v.elems # <<>>
      [] v.kind = "dict" -> v.items # <<>>
      [] OTHER -> TRUE

\* dict operations on the ordered items
KeyIndex(its, k) ==
    LET S == {i \in 1..Len(its) : its[i][1] = k}
    IN  IF S = {} THEN 0 ELSE CHOOSE i \in S : TRUE
DictHas(d, k) == KeyIndex(d.items, k) # 0
DictGet(d, k) == d.items[KeyIndex(d.items, k)][2]
DictSet(d, k, v) ==
    IF DictHas(d, k)
    THEN PyDict([d.items EXCEPT ![KeyIndex(d.items, k)] = <<k, v>>])
    ELSE PyDict(Append(d.items, <<k, v>>))
DictPop(d, k) ==
    LET i == KeyIndex(d.items, k)
    IN  PyDict(SubSeq(d.items, 1, i - 1) \o SubSeq(d.items, i + 1, Len(d.items)))
DictKeys(d) == {d.items[i][1] : i \in 1..Len(d.items)}

\* str.__contains__ on the strings of the model (needle in hay)
Substrings ==
    {<<"url", "broker_url">>, <<"broker", "broker_url">>, <<"redis", "redis://cache">>,
     <<"cache", "redis://cache">>}
StrContains(needle, hay) == needle = hay \/ needle = "" \/ <<needle, hay>> \in Substrings

\* "comp in root" for a str comp: which exception it raises ("" for none)
InRaises(comp, root) ==
    IF root.kind \in {"dict", "str", "list"} THEN "" ELSE "TypeError"
\* "comp in root" where it does not raise
InHolds(comp, root) ==
    CASE root.kind = "dict" -> DictHas(root, comp)
      [] root.kind = "str" -> StrContains(comp, root.s)
      [] root.kind = "list" -> \E i \in 1..Len(root.elems) : root.elems[i] = PyStr(comp)
      [] OTHER -> FALSE

\* root.get(comp, default): only a dict has the method
DotGet(root, comp, default) ==
    IF root.kind = "dict"
    THEN Ret(IF DictHas(root, comp) THEN DictGet(root, comp) ELSE default)
    ELSE Raise("AttributeError", PyNone)

\* root[key] = value
SetItem(root, key, value) ==
    IF root.kind = "dict" THEN Ret(DictSet(root, key, value)) ELSE Raise("TypeError", root)

----------------------------------------------------------------------------
(* Dotted paths: str.split(".") on the paths of the model *)

SplitTable ==
    ("geoip" :> <<"geoip">>)
    @@ ("events.context_processors.geoip" :> <<"events", "context_processors", "geoip">>)
    @@ ("redis.broker_url" :> <<"redis", "broker_url">>)
    @@ ("broker.url" :> <<"broker", "url">>)
    @@ ("redis.broker_transport_options" :> <<"redis", "broker_transport_options">>)
    @@ ("broker.transport_options" :> <<"broker", "transport_options">>)
    @@ ("redis.cache_timeout" :> <<"redis", "cache_timeout">>)
    @@ ("cache.timeout" :> <<"cache", "timeout">>)
    @@ ("redis.cache_timeout_flows" :> <<"redis", "cache_timeout_flows">>)
    @@ ("cache.timeout_flows" :> <<"cache", "timeout_flows">>)
    @@ ("redis.cache_timeout_policies" :> <<"redis", "cache_timeout_policies">>)
    @@ ("cache.timeout_policies" :> <<"cache", "timeout_policies">>)
    @@ ("redis.cache_timeout_reputation" :> <<"redis", "cache_timeout_reputation">>)
    @@ ("cache.timeout_reputation" :> <<"cache", "timeout_reputation">>)
    @@ ("redis" :> <<"redis">>)
    @@ ("broker" :> <<"broker">>)
    @@ ("log_level" :> <<"log_level">>)
    @@ ("redis.host" :> <<"redis", "host">>)
    @@ ("redis.host.name" :> <<"redis", "host", "name">>)
split(path) == SplitTable[path]

\* get_path_from_dict: the loop from component i on
RECURSIVE get_path_walk(_, _, _, _)
get_path_walk(root, parts, i, default) ==
    IF i > Len(parts) THEN Ret(root)
    ELSE IF ~Truthy(root) THEN Ret(default)
    ELSE IF InRaises(parts[i], root) # "" THEN Raise(InRaises(parts[i], root), PyNone)
    ELSE IF ~InHolds(parts[i], root) THEN Ret(default)
    ELSE LET child == DotGet(root, parts[i], PyNone)
         IN  IF child.exc # "" THEN child
             ELSE get_path_walk(child.val, parts, i + 1, default)

get_path_from_dict(root, path, default) == get_path_walk(root, split(path), 1, default)

\* set_path_in_dict: the loop from component i on, then the final assignment
RECURSIVE set_path_walk(_, _, _, _)
set_path_walk(root, parts, i, value) ==
    IF i = Len(parts) THEN SetItem(root, parts[i], value)
    ELSE IF InRaises(parts[i], root) # "" THEN Raise(InRaises(parts[i], root), root)
    ELSE LET made == IF InHolds(parts[i], root)
                     THEN Ret(root)
                     ELSE SetItem(root, parts[i], EmptyDict)
         IN  IF made.exc # "" THEN made
             ELSE LET child == DotGet(made.val, parts[i], EmptyDict)
                  IN  IF child.exc # "" THEN Raise(child.exc, made.val)
                      ELSE LET sub == set_path_walk(child.val, parts, i + 1, value)
                           IN  IF sub.val.kind = "dict"
                               THEN [exc |-> sub.exc,
                                     val |-> DictSet(made.val, parts[i], sub.val)]
                               ELSE Raise(sub.exc, made.val)

set_path_in_dict(root, path, value) == set_path_walk(root, split(path), 1, value)

----------------------------------------------------------------------------
(* Python built-ins and library calls, on the strings of the model *)

\* str.lower()
LowerTable ==
    ("True" :> "true") @@ ("TRUE" :> "true") @@ ("False" :> "false") @@ ("None" :> "none")
str_lower(s) == IF s \in DOMAIN LowerTable THEN LowerTable[s] ELSE s

\* str(v); the text of a container starts with a bracket
py_str(v) ==
    CASE v.kind = "none" -> "None"
      [] v.kind = "bool" -> IF v.b THEN "True" ELSE "False"
      [] v.kind = "int" -> ToString(v.i)
      [] v.kind = "str" -> v.s
      [] v.kind = "list" -> "[...]"
      [] v.kind = "dict" -> "{...}"
      [] OTHER -> "<object>"

\* int(v): the decimal strings of the model
IntTable == ("12" :> 12) @@ ("0" :> 0) @@ ("7" :> 7)
py_int(v) ==
    CASE v.kind = "int" -> Ret(PyInt(v.i))
      [] v.kind = "bool" -> Ret(PyInt(IF v.b THEN 1 ELSE 0))
      [] v.kind = "str" ->
           IF v.s \in DOMAIN IntTable THEN Ret(PyInt(IntTable[v.s]))
           ELSE Raise("ValueError", PyNone)
      [] OTHER -> Raise("TypeError", PyNone)

\* str.strip() of the file contents of the model
StripTable == ("hunter2\n" :> "hunter2") @@ ("  rotated \n" :> "rotated")
str_strip(s) == IF s \in DOMAIN StripTable THEN StripTable[s] ELSE s

\* urllib.parse.urlparse: the fields parse_uri reads
UrlTable ==
    ("env://DB_PASS?fallback" :>
        [scheme |-> "env", netloc |-> "DB_PASS", path |-> "", query |-> "fallback"])
    @@ ("env://DB_PASS" :>
        [scheme |-> "env", netloc |-> "DB_PASS", path |-> "", query |-> ""])
    @@ ("file:///run/secrets/pw?fb" :>
        [scheme |-> "file", netloc |-> "", path |-> "/run/secrets/pw", query |-> "fb"])
    @@ ("redis://cache" :>
        [scheme |-> "redis", netloc |-> "cache", path |-> "", query |-> ""])
urlparse(s) ==
    IF s \in DOMAIN UrlTable THEN UrlTable[s]
    ELSE [scheme |-> "", netloc |-> "", path |-> s, query |-> ""]

\* json.loads of an environment value: exc = "JSONDecodeError" when it is no JSON
JsonTable ==
    ("12" :> PyInt(12)) @@ ("true" :> PyBool(TRUE)) @@ ("null" :> PyNone)
    @@ ("[]" :> PyList(<<>>))
loads(s) ==
    IF s \in DOMAIN JsonTable THEN Ret(JsonTable[s]) ELSE Raise("JSONDecodeError", PyNone)

\* json.dumps of the log record: the keyword arguments must be JSON serialisable
JsonSerializable(v) == v.kind \in {"none", "bool", "int", "str", "list", "dict"}

\* os.getenv(name, default) on an environment
getenv(env, name, default) ==
    IF KeyIndex(env, name) # 0 THEN env[KeyIndex(env, name)][2] ELSE default

----------------------------------------------------------------------------
(* ConfigLoader: the methods as functions of the tree and the environment *)

ENV_PREFIX == "AUTHENTIK"

DEPRECATIONS ==
    << <<"geoip", "events.context_processors.geoip">>,
       <<"redis.broker_url", "broker.url">>,
       <<"redis.broker_transport_options", "broker.transport_options">>,
       <<"redis.cache_timeout", "cache.timeout">>,
       <<"redis.cache_timeout_flows", "cache.timeout_flows">>,
       <<"redis.cache_timeout_policies", "cache.timeout_policies">>,
       <<"redis.cache_timeout_reputation", "cache.timeout_reputation">> >>

\* ConfigLoader.log: exc = "TypeError" when dumps cannot serialise a keyword argument
log(level, message, kw) ==
    IF \A i \in 1..Len(kw) : JsonSerializable(kw[i]) THEN "" ELSE "TypeError"

\* open(path).read() of a file of the file system
FileReadable(fs, path) == path \in DOMAIN fs /\ fs[path].exists /\ fs[path].readable

\* ConfigLoader.parse_uri
parse_uri(value, env, fs) ==
    LET url == urlparse(value)
        parsed_value ==
            IF url.scheme = "env" THEN getenv(env, url.netloc, url.query)
            ELSE IF url.scheme = "file"
            THEN IF FileReadable(fs, url.path) THEN str_strip(fs[url.path].text)
                 ELSE url.query
            ELSE value
    IN  AttrRec(PyStr(parsed_value), "uri", PyStr(value))

\* ConfigLoader.update: the loop over updatee.items() from item i on
RECURSIVE update_walk(_, _, _, _, _)
update_walk(root, updatee, i, env, fs) ==
    IF i > Len(updatee.items) THEN Ret(root)
    ELSE LET key == updatee.items[i][1]
             value == updatee.items[i][2]
         IN  IF value.kind = "dict"
             THEN LET child == DotGet(root, key, EmptyDict)
                  IN  IF child.exc # "" THEN Raise(child.exc, root)
                      ELSE LET sub == update_walk(child.val, value, 1, env, fs)
                               attached == DictHas(root, key) /\ child.val.kind = "dict"
                           IN  IF sub.exc # ""
                               THEN Raise(sub.exc,
                                          IF attached THEN DictSet(root, key, sub.val)
                                          ELSE root)
                               ELSE update_walk(DictSet(root, key, sub.val), updatee,
                                                i + 1, env, fs)
             ELSE LET wrapped ==
                          IF value.kind = "str" THEN parse_uri(value.s, env, fs)
                          ELSE IF value.kind = "attr" /\ value.value.kind = "str"
                          THEN parse_uri(value.value.s, env, fs)
                          ELSE IF value.kind # "attr"
                          THEN AttrRec(value, "unspecified", PyNone)
                          ELSE value
                      done == SetItem(root, key, wrapped)
                  IN  IF done.exc # "" THEN done
                      ELSE update_walk(done.val, updatee, i + 1, env, fs)

\* update without the recursion into the destination: a mapping of the source
\* replaces what the destination holds at its key
RECURSIVE update_shallow_walk(_, _, _, _, _)
update_shallow_walk(root, updatee, i, env, fs) ==
    IF i > Len(updatee.items) THEN Ret(root)
    ELSE LET key == updatee.items[i][1]
             value == updatee.items[i][2]
             one == IF value.kind = "dict"
                    THEN update_walk(EmptyDict, value, 1, env, fs)
                    ELSE update_walk(EmptyDict, PyDict(<<updatee.items[i]>>), 1, env, fs)
             done == SetItem(root, key,
                             IF value.kind = "dict" THEN one.val ELSE DictGet(one.val, key))
         IN  IF one.exc # "" THEN Raise(one.exc, root)
             ELSE IF done.exc # "" THEN done
             ELSE update_shallow_walk(done.val, updatee, i + 1, env, fs)
update_shallow(root, updatee, env, fs) == update_shallow_walk(root, updatee, 1, env, fs)

update(root, updatee, env, fs) == update_walk(root, updatee, 1, env, fs)

\* ConfigLoader.get
get(root, path, default) ==
    LET made == Attr(default, "unspecified", PyNone)
    IN  IF made.exc # "" THEN made
        ELSE LET attr == get_path_from_dict(root, path, made.val)
             IN  IF attr.exc # "" THEN attr
                 ELSE IF attr.val.kind = "attr" THEN Ret(attr.val.value)
                 ELSE Raise("AttributeError", PyNone)

\* ConfigLoader.get_int
get_int(root, path, default) ==
    LET got == get(root, path, default)
    IN  IF got.exc # "" THEN got
        ELSE LET n == py_int(got.val)
             IN  IF n.exc = "ValueError" THEN Ret(default) ELSE n

\* get_bool without the lower()
get_bool_nolower(root, path, default) ==
    LET got == get(root, path, default)
    IN  IF got.exc # "" THEN got
        ELSE Ret(PyBool(py_str(got.val) = "true"))

\* ConfigLoader.get_bool
get_bool(root, path, default) ==
    LET got == get(root, path, default)
    IN  IF got.exc # "" THEN got
        ELSE Ret(PyBool(str_lower(py_str(got.val)) = "true"))

\* ConfigLoader.set
set(root, path, value) ==
    LET made == Attr(value, "unspecified", PyNone)
    IN  IF made.exc # "" THEN Raise(made.exc, root)
        ELSE set_path_in_dict(root, path, made.val)

\* attr.value = value, for the Attr object get_path_from_dict found at parts[i..]
RECURSIVE assign_value(_, _, _, _)
assign_value(root, parts, i, value) ==
    IF i > Len(parts) THEN [root EXCEPT !.value = value]
    ELSE DictSet(root, parts[i], assign_value(DictGet(root, parts[i]), parts, i + 1, value))

\* refresh resolving the current value instead of the original indirection string
refresh_value(root, key, env, fs) ==
    LET attr == get_path_from_dict(root, key, PyNone)
    IN  IF attr.exc # "" THEN Raise(attr.exc, root)
        ELSE IF attr.val.kind # "attr" THEN Raise("AttributeError", root)
        ELSE IF attr.val.source_type # "uri" THEN Ret(root)
        ELSE Ret(assign_value(root, split(key), 1,
                              parse_uri(attr.val.value.s, env, fs).value))

\* ConfigLoader.refresh
refresh(root, key, env, fs) ==
    LET attr == get_path_from_dict(root, key, PyNone)
    IN  IF attr.exc # "" THEN Raise(attr.exc, root)
        ELSE IF attr.val.kind # "attr" THEN Raise("AttributeError", root)
        ELSE IF attr.val.source_type # "uri" THEN Ret(root)
        ELSE Ret(assign_value(root, split(key), 1,
                              parse_uri(attr.val.source.s, env, fs).value))

\* ConfigLoader.update_from_dict: dict.update, a shallow assignment of every item
RECURSIVE dict_update(_, _, _)
dict_update(root, upd, i) ==
    IF i > Len(upd.items) THEN root
    ELSE dict_update(DictSet(root, upd.items[i][1], upd.items[i][2]), upd, i + 1)

update_from_dict(root, upd) == dict_update(root, upd, 1)

\* yaml.safe_load of the YAML texts of the model; exc = "YAMLError" for a malformed text
YamlTable ==
    ("log_level: info\nredis:\n  host: localhost\n  broker_url: redis://cache\n" :>
        PyDict(<< <<"log_level", PyStr("info")>>,
                  <<"redis", PyDict(<< <<"host", PyStr("localhost")>>,
                                       <<"broker_url", PyStr("redis://cache")>> >>)>> >>))
    @@ ("log_level: debug\nredis:\n  host: env://DB_PASS?fallback\n" :>
        PyDict(<< <<"log_level", PyStr("debug")>>,
                  <<"redis", PyDict(<< <<"host", PyStr("env://DB_PASS?fallback")>> >>)>> >>))
    @@ ("redis: 12\n" :> PyDict(<< <<"redis", PyInt(12)>> >>))
    @@ ("broker:\n  url: file:///run/secrets/pw?fb\ngeoip: null\n" :>
        PyDict(<< <<"broker", PyDict(<< <<"url", PyStr("file:///run/secrets/pw?fb")>> >>)>>,
                  <<"geoip", PyNone>> >>))
    @@ ("redis:\n  host:\n    name: cache\n" :>
        PyDict(<< <<"redis", PyDict(<< <<"host",
                      PyDict(<< <<"name", PyStr("cache")>> >>)>> >>)>> >>))
    @@ ("" :> PyNone)
safe_load(text) ==
    IF text \in DOMAIN YamlTable THEN Ret(YamlTable[text]) ELSE Raise("YAMLError", PyNone)

\* ConfigLoader.update_from_file; path is a str or a pathlib.Path of the file
update_from_file(root, path, env, fs) ==
    LET name == IF path.kind = "Path" THEN path.p ELSE path.s
    IN  IF ~(name \in DOMAIN fs /\ fs[name].exists) THEN Raise("FileNotFoundError", root)
        ELSE IF ~fs[name].readable
        THEN \* except PermissionError: self.log("warning", ..., path=path, error=str(exc))
             [exc |-> log("warning", "Permission denied while reading file",
                          <<path, PyStr("[Errno 13] Permission denied")>>),
              val |-> root]
        ELSE LET doc == safe_load(fs[name].text)
             IN  IF doc.exc # "" THEN Raise("ImproperlyConfigured", root)
                 ELSE IF doc.val.kind # "dict" THEN Raise("AttributeError", root)
                 ELSE LET done == update(root, doc.val, env, fs)
                      IN  IF done.exc # "" THEN done
                          ELSE \* self.log("debug", "Loaded config", file=str(path))
                               [exc |-> log("debug", "Loaded config", <<PyStr(name)>>),
                                val |-> done.val]

\* key.startswith(ENV_PREFIX), and
\* key.replace(f"{ENV_PREFIX}_", "", 1).replace("__", ".").lower(),
\* on the variable names of the model
RelativeKeyTable ==
    ("AUTHENTIK_LOG_LEVEL" :> "log_level")
    @@ ("AUTHENTIK_REDIS__BROKER_URL" :> "redis.broker_url")
    @@ ("AUTHENTIK_BROKER__URL" :> "broker.url")
    @@ ("AUTHENTIK_REDIS" :> "redis")
    @@ ("AUTHENTIK_REDIS__HOST" :> "redis.host")
    @@ ("AUTHENTIK_GEOIP" :> "geoip")
startswith_prefix(key) == key \in DOMAIN RelativeKeyTable
relative_key(key) == RelativeKeyTable[key]

\* ConfigLoader.update_from_env: the loop over os.environ.items() from item i on;
\* state is [outer, idx]
RECURSIVE env_walk(_, _, _, _)
env_walk(env, i, outer, n) ==
    IF i > Len(env) THEN [exc |-> "", outer |-> outer, idx |-> n]
    ELSE IF ~startswith_prefix(env[i][1]) THEN env_walk(env, i + 1, outer, n)
    ELSE LET parsed == loads(env[i][2])
             value == IF parsed.exc = "" THEN parsed.val ELSE PyStr(env[i][2])
             attr_value == Attr(value, "env", PyStr(relative_key(env[i][1])))
             put == set_path_in_dict(outer, relative_key(env[i][1]), attr_value.val)
         IN  IF put.exc # "" THEN [exc |-> put.exc, outer |-> put.val, idx |-> n]
             ELSE env_walk(env, i + 1, put.val, n + 1)

update_from_env(root, env, fs) ==
    LET scan == env_walk(env, 1, EmptyDict, 0)
    IN  IF scan.exc # "" THEN Raise(scan.exc, root)
        ELSE IF scan.idx > 0 THEN update(root, scan.outer, env, fs)
        ELSE Ret(root)

\* _pop_deprecated_key: [value, obj] with obj the current_obj as the call left it
RECURSIVE pop_deprecated_key(_, _, _)
pop_deprecated_key(current_obj, dot_parts, index) ==
    LET dot_part == dot_parts[index]
    IN  IF index = Len(dot_parts)
        THEN [value |-> DictGet(current_obj, dot_part), obj |-> DictPop(current_obj, dot_part)]
        ELSE LET sub == pop_deprecated_key(DictGet(current_obj, dot_part), dot_parts, index + 1)
             IN  [value |-> sub.value,
                  obj |-> IF ~Truthy(sub.obj) THEN DictPop(current_obj, dot_part)
                          ELSE DictSet(current_obj, dot_part, sub.obj)]

\* ConfigLoader.check_deprecations: the loop over DEPRECATIONS.items() from entry i on;
\* importable tells whether the import of the event model succeeds;
\* done lists the entries migrated
RECURSIVE deprecations_walk(_, _, _, _)
deprecations_walk(root, i, importable, done) ==
    IF i > Len(DEPRECATIONS) THEN [exc |-> "", val |-> root, done |-> done]
    ELSE LET deprecation == DEPRECATIONS[i][1]
             replacement == DEPRECATIONS[i][2]
             found == get(root, deprecation, UNSET)
         IN  IF found.exc # "" THEN [exc |-> found.exc, val |-> root, done |-> done]
             ELSE IF found.val = UNSET
             THEN deprecations_walk(root, i + 1, importable, done)
             ELSE IF ~importable
             THEN deprecations_walk(root, i + 1, importable, done)
             ELSE LET popped == pop_deprecated_key(root, split(deprecation), 1)
                      put == set(popped.obj, replacement, popped.value.value)
                  IN  IF put.exc # "" THEN [exc |-> put.exc, val |-> put.val, done |-> done]
                      ELSE deprecations_walk(put.val, i + 1, importable,
                                             Append(done, i))

check_deprecations(root, importable) == deprecations_walk(root, 1, importable, <<>>)

----------------------------------------------------------------------------
(* The file system and the search path *)

\* base_dir of __init__: the directory two levels above authentik/lib
BASE_DIR == "/authentik"

\* Path.is_absolute on the search path entries
is_absolute(p) == p \in {"/etc/authentik/config.yml", "/etc/authentik/config.d/10-extra.yml"}
\* base_dir / path
joinpath(base, p) == IF p = "" THEN base ELSE base \o "/" \o p

is_file(fs, p) == p \in DOMAIN fs /\ fs[p].exists
is_dir(fs, p) == p = BASE_DIR

\* glob("/etc/authentik/config.d/*.yml")
glob(fs) ==
    IF is_file(fs, "/etc/authentik/config.d/10-extra.yml")
    THEN <<"/etc/authentik/config.d/10-extra.yml">>
    ELSE <<>>

SEARCH_PATHS(fs) == <<"authentik/lib/default.yml", "/etc/authentik/config.yml", "">> \o glob(fs)

ENVIRONMENT(env) == getenv(env, ENV_PREFIX \o "_ENV", "local")

\* the files one entry of SEARCH_PATHS makes __init__ look at, in order
entry_paths(fs, env, entry) ==
    LET path == IF is_absolute(entry) THEN entry ELSE joinpath(BASE_DIR, entry)
    IN  IF is_file(fs, path) THEN <<path>>
        ELSE IF is_dir(fs, path)
        THEN <<joinpath(path, ENVIRONMENT(env) \o ".yml"),
               joinpath(path, ENVIRONMENT(env) \o ".env.yml"),
               joinpath(path, ENVIRONMENT(env) \o ".yaml"),
               joinpath(path, ENVIRONMENT(env) \o ".env.yaml")>>
        ELSE <<>>

\* the two nested loops of __init__, unrolled: every file it looks at, in order
RECURSIVE candidates_from(_, _, _)
candidates_from(fs, env, i) ==
    IF i > Len(SEARCH_PATHS(fs)) THEN <<>>
    ELSE entry_paths(fs, env, SEARCH_PATHS(fs)[i]) \o candidates_from(fs, env, i + 1)
candidates(fs, env) == candidates_from(fs, env, 1)

----------------------------------------------------------------------------
(* Inputs: the files, the environment and the keyword arguments of a run *)

Absent == [exists |-> FALSE, readable |-> FALSE, text |-> ""]
File(text) == [exists |-> TRUE, readable |-> TRUE, text |-> text]
Unreadable(text) == [exists |-> TRUE, readable |-> FALSE, text |-> text]

YAML_DEFAULT == "log_level: info\nredis:\n  host: localhost\n  broker_url: redis://cache\n"
YAML_LOCAL == "log_level: debug\nredis:\n  host: env://DB_PASS?fallback\n"
YAML_LEAF == "redis: 12\n"
YAML_BROKER == "broker:\n  url: file:///run/secrets/pw?fb\ngeoip: null\n"
YAML_DEEP == "redis:\n  host:\n    name: cache\n"
YAML_EMPTY == ""
YAML_BAD == "log_level: [\n"

F_DEFAULT == joinpath(BASE_DIR, "authentik/lib/default.yml")
F_ETC == "/etc/authentik/config.yml"
F_LOCAL == joinpath(BASE_DIR, "local.yml")
F_LOCAL_ENV == joinpath(BASE_DIR, "local.env.yml")
F_DROPIN == "/etc/authentik/config.d/10-extra.yml"
F_SECRET == "/run/secrets/pw"
\* a file outside the search path, given to update_from_file after the load
F_OVERRIDE == "/etc/authentik/override.yml"

FileSystem(default, etc, local, localenv, dropin, secret) ==
    (F_DEFAULT :> default) @@ (F_ETC :> etc) @@ (F_LOCAL :> local)
    @@ (F_LOCAL_ENV :> localenv) @@ (F_DROPIN :> dropin) @@ (F_SECRET :> secret)

\* the file systems the load sequence is checked on
LoadFileSystems ==
    {FileSystem(d, e, l, le, g, s) :
        d \in {File(YAML_DEFAULT), Absent},
        e \in {Absent, File(YAML_LOCAL), File(YAML_LEAF), File(YAML_BAD)},
        l \in {Absent, File(YAML_LOCAL), File(YAML_BROKER), File(YAML_DEEP)},
        le \in {Absent, File(YAML_LEAF), File(YAML_EMPTY)},
        g \in {Absent, File(YAML_BROKER), Unreadable(YAML_BROKER)},
        s \in {Absent, File("hunter2\n")}}

\* the file systems the public operations are checked on
OpFileSystems ==
    {FileSystem(File(YAML_DEFAULT), File(YAML_LOCAL), File(YAML_BROKER), Absent, Absent,
                File("hunter2\n"))
     @@ (F_OVERRIDE :> Unreadable(YAML_LEAF))}

LoadEnvironments ==
    { << <<"DB_PASS", "s3cret">> >>,
      << <<"AUTHENTIK_LOG_LEVEL", "warning">>, <<"DB_PASS", "s3cret">> >>,
      << <<"AUTHENTIK_REDIS__BROKER_URL", "env://DB_PASS">>,
         <<"AUTHENTIK_BROKER__URL", "12">> >>,
      << <<"AUTHENTIK_REDIS", "true">>, <<"AUTHENTIK_REDIS__HOST", "localhost">> >>,
      << <<"AUTHENTIK_REDIS__HOST", "localhost">>, <<"AUTHENTIK_REDIS", "null">> >> }

OpEnvironments ==
    { << <<"AUTHENTIK_LOG_LEVEL", "12">>, <<"DB_PASS", "s3cret">> >> }

LoadKwargs ==
    { EmptyDict,
      PyDict(<< <<"log_level", PyStr("error")>>,
                <<"redis", PyDict(<< <<"cache_timeout", PyInt(12)>> >>)>> >>),
      PyDict(<< <<"broker", AttrRec(PyStr("amqp"), "unspecified", PyNone)>> >>) }

OpKwargs == { EmptyDict }

NoOp == [op |-> "", path |-> "", value |-> PyNone, exc |-> "", before |-> Ret(PyNone)]

InitWith(fss, envs, kws) ==
    /\ config = EmptyDict
    /\ pc = "search"
    /\ idx = 1
    /\ error = ""
    /\ files \in fss
    /\ osenv \in envs
    /\ kwargs \in kws
    /\ events_importable \in BOOLEAN
    /\ patches = <<>>
    /\ last = NoOp
    /\ nops = 0
    /\ merged = <<>>
    /\ premigration = EmptyDict
    /\ migrated = <<>>

----------------------------------------------------------------------------
(* History: the leaves a source defines, as <<path components, value>> *)

RECURSIVE Leaves(_, _)
Leaves(doc, prefix) ==
    UNION { LET k == doc.items[i][1]
                v == doc.items[i][2]
            IN  IF v.kind = "dict" THEN Leaves(v, Append(prefix, k))
                ELSE {<<Append(prefix, k), v>>} : i \in 1..Len(doc.items) }

EnvLeaves(env) ==
    { <<split(relative_key(env[i][1])),
        IF loads(env[i][2]).exc = "" THEN loads(env[i][2]).val ELSE PyStr(env[i][2])>> :
        i \in {j \in 1..Len(env) : startswith_prefix(env[j][1])} }

Source(name, exc, leaves) == [source |-> name, exc |-> exc, leaves |-> leaves]

----------------------------------------------------------------------------
(* ConfigLoader.__init__, one step per source *)

Fail(exc) == pc' = "failed" /\ error' = exc

\* one file of the search path: update_from_file when it is a file
LoadFile ==
    /\ pc = "search"
    /\ LET cands == candidates(files, osenv)
           path == cands[idx]
           done == update_from_file(config, PathObj(path), osenv, files)
           doc == safe_load(files[path].text)
       IN  IF idx > Len(cands)
           THEN /\ pc' = "env"
                /\ UNCHANGED <<config, idx, error, merged>>
           ELSE IF ~is_file(files, path)
           THEN UNCHANGED <<config, pc, error, merged>> /\ idx' = idx + 1
           ELSE /\ config' = done.val
                /\ idx' = idx + 1
                /\ merged' = Append(merged,
                       Source(path,
                              IF ~files[path].readable THEN "PermissionError"
                              ELSE IF doc.exc # "" THEN doc.exc ELSE done.exc,
                              IF done.exc = "" /\ files[path].readable
                              THEN Leaves(doc.val, <<>>) ELSE {}))
                /\ IF done.exc # "" THEN Fail(done.exc) ELSE UNCHANGED <<pc, error>>
    /\ UNCHANGED <<osenv, files, kwargs, events_importable, patches, last, nops,
                   premigration, migrated>>

\* self.update_from_env()
LoadEnv ==
    /\ pc = "env"
    /\ LET done == update_from_env(config, osenv, files)
       IN  /\ config' = done.val
           /\ merged' = Append(merged, Source("env", done.exc, EnvLeaves(osenv)))
           /\ IF done.exc # "" THEN Fail(done.exc) ELSE pc' = "kwargs" /\ error' = error
    /\ UNCHANGED <<idx, osenv, files, kwargs, events_importable, patches, last, nops,
                   premigration, migrated>>

\* self.update(self.__config, kwargs)
LoadKwargsStep ==
    /\ pc = "kwargs"
    /\ LET done == update(config, kwargs, osenv, files)
       IN  /\ config' = done.val
           /\ merged' = Append(merged, Source("kwargs", done.exc, Leaves(kwargs, <<>>)))
           /\ IF done.exc # "" THEN Fail(done.exc)
              ELSE pc' = "deprecations" /\ error' = error
    /\ UNCHANGED <<idx, osenv, files, kwargs, events_importable, patches, last, nops,
                   premigration, migrated>>

\* self.check_deprecations()
LoadDeprecations ==
    /\ pc = "deprecations"
    /\ LET done == check_deprecations(config, events_importable)
       IN  /\ config' = done.val
           /\ migrated' = done.done
           /\ premigration' = config
           /\ merged' = Append(merged,
                  Source("migration", done.exc,
                         { <<split(DEPRECATIONS[done.done[i]][2]),
                             get(config, DEPRECATIONS[done.done[i]][1], UNSET).val>> :
                           i \in 1..Len(done.done) }))
           /\ IF done.exc # "" THEN Fail(done.exc) ELSE pc' = "ready" /\ error' = error
    /\ UNCHANGED <<idx, osenv, files, kwargs, events_importable, patches, last, nops>>

NextLoad == LoadFile \/ LoadEnv \/ LoadKwargsStep \/ LoadDeprecations

InitLoad == InitWith(LoadFileSystems, LoadEnvironments, LoadKwargs)

\* the load sequence alone, on a wide choice of sources
LoadSpec == InitLoad /\ [][NextLoad]_vars

----------------------------------------------------------------------------
(* The public operations on the loaded configuration *)

MaxOps == 2
MaxPatchDepth == 2

OpPaths == {"log_level", "redis", "redis.host", "broker.url"}
\* the values given to set
SetValues ==
    {PyNone, PyBool(TRUE), PyInt(7), PyStr("12"), PyStr("TRUE"), PyStr("abc"),
     PyList(<<PyStr("true")>>)}
PatchValues == {PyStr("patched"), PyBool(TRUE)}
\* the dicts given to update_from_dict
DictInputs ==
    { PyDict(<< <<"log_level", PyStr("broker_url")>> >>),
      PyDict(<< <<"redis", AttrRec(PyInt(7), "unspecified", PyNone)>> >>) }
\* the mappings given to update
UpdateInputs ==
    { PyDict(<< <<"redis", PyDict(<< <<"host", PyStr("env://DB_PASS")>> >>)>> >>),
      PyDict(<< <<"log_level", PyDict(<< <<"handlers", PyInt(7)>> >>)>> >>) }
UpdateFiles == {F_LOCAL, F_OVERRIDE}
\* the values the environment variable DB_PASS and the secret file are changed to
RotatedEnv == "rotated"
RotatedFile == "  rotated \n"

Ready == pc = "ready" /\ nops < MaxOps
Did(op, path, value, exc) ==
    /\ last' = [op |-> op, path |-> path, value |-> value, exc |-> exc,
                before |-> IF path = "" THEN Ret(PyNone) ELSE get(config, path, PyNone)]
    /\ nops' = nops + 1

SetOp ==
    /\ Ready /\ patches = <<>>
    /\ \E path \in OpPaths, value \in SetValues :
          LET done == set(config, path, value)
          IN  config' = done.val /\ Did("set", path, value, done.exc)
    /\ UNCHANGED <<pc, idx, error, osenv, files, kwargs, events_importable, patches,
                   merged, premigration, migrated>>

\* patch(): up to the yield
patch_enter(root, path, value) ==
    LET original_value == get(root, path, PyNone)
        put == set(root, path, value)
    IN  IF original_value.exc # ""
        THEN [exc |-> original_value.exc, val |-> root, original_value |-> PyNone]
        ELSE [exc |-> put.exc, val |-> put.val, original_value |-> original_value.val]

\* patch() without the finally clause
patch_exit_norestore(root, path, original_value) == Ret(root)

\* patch(): the finally clause
patch_exit(root, path, original_value) == set(root, path, original_value)

PatchEnter ==
    /\ Ready /\ Len(patches) < MaxPatchDepth
    /\ \E path \in OpPaths, value \in PatchValues :
          LET done == patch_enter(config, path, value)
          IN  /\ config' = done.val
              /\ Did("patch", path, value, done.exc)
              /\ patches' = IF done.exc # "" THEN patches
                            ELSE Append(patches,
                                     [path |-> path, value |-> value,
                                      original_value |-> done.original_value,
                                      before |-> get(config, path, PyNone)])
    /\ UNCHANGED <<pc, idx, error, osenv, files, kwargs, events_importable,
                   merged, premigration, migrated>>

\* the body of the innermost patch ends, normally or by raising
PatchExit ==
    /\ pc = "ready" /\ patches # <<>>
    /\ \E raised \in BOOLEAN :
          LET frame == patches[Len(patches)]
              done == patch_exit(config, frame.path, frame.original_value)
          IN  /\ config' = done.val
              /\ patches' = SubSeq(patches, 1, Len(patches) - 1)
              /\ last' = [op |-> IF raised THEN "patch_exit_raised" ELSE "patch_exit",
                          path |-> frame.path, value |-> frame.value, exc |-> done.exc,
                          before |-> frame.before]
    /\ UNCHANGED <<pc, idx, error, osenv, files, kwargs, events_importable, nops,
                   merged, premigration, migrated>>

RefreshOp ==
    /\ Ready /\ patches = <<>>
    /\ \E key \in OpPaths :
          LET done == refresh(config, key, osenv, files)
          IN  config' = done.val /\ Did("refresh", key, PyNone, done.exc)
    /\ UNCHANGED <<pc, idx, error, osenv, files, kwargs, events_importable, patches,
                   merged, premigration, migrated>>

UpdateFromDictOp ==
    /\ Ready /\ patches = <<>>
    /\ \E d \in DictInputs :
          config' = update_from_dict(config, d) /\ Did("update_from_dict", "", d, "")
    /\ UNCHANGED <<pc, idx, error, osenv, files, kwargs, events_importable, patches,
                   merged, premigration, migrated>>

UpdateFromFileOp ==
    /\ Ready /\ patches = <<>>
    /\ \E f \in UpdateFiles :
          LET done == update_from_file(config, PyStr(f), osenv, files)
          IN  config' = done.val /\ Did("update_from_file", "", PyStr(f), done.exc)
    /\ UNCHANGED <<pc, idx, error, osenv, files, kwargs, events_importable, patches,
                   merged, premigration, migrated>>

UpdateFromEnvOp ==
    /\ Ready /\ patches = <<>>
    /\ LET done == update_from_env(config, osenv, files)
       IN  config' = done.val /\ Did("update_from_env", "", PyNone, done.exc)
    /\ UNCHANGED <<pc, idx, error, osenv, files, kwargs, events_importable, patches,
                   merged, premigration, migrated>>

UpdateOp ==
    /\ Ready /\ patches = <<>>
    /\ \E u \in UpdateInputs :
          LET done == update(config, u, osenv, files)
          IN  config' = done.val /\ Did("update", "", u, done.exc)
    /\ UNCHANGED <<pc, idx, error, osenv, files, kwargs, events_importable, patches,
                   merged, premigration, migrated>>

\* the process environment and the secret file change while the process runs
Rotate ==
    /\ pc = "ready" /\ patches = <<>>
    /\ getenv(osenv, "DB_PASS", "") # RotatedEnv
    /\ osenv' = [osenv EXCEPT ![KeyIndex(osenv, "DB_PASS")] = <<"DB_PASS", RotatedEnv>>]
    /\ files' = [files EXCEPT ![F_SECRET] = File(RotatedFile)]
    /\ UNCHANGED <<config, pc, idx, error, kwargs, events_importable, patches, last, nops,
                   merged, premigration, migrated>>

Init == InitWith(OpFileSystems, OpEnvironments, OpKwargs)

Next ==
    \/ LoadFile
    \/ LoadEnv
    \/ LoadKwargsStep
    \/ LoadDeprecations
    \/ SetOp
    \/ PatchEnter
    \/ PatchExit
    \/ RefreshOp
    \/ UpdateFromDictOp
    \/ UpdateFromFileOp
    \/ UpdateFromEnvOp
    \/ UpdateOp
    \/ Rotate

Spec == Init /\ [][Next]_vars

----------------------------------------------------------------------------
(* Definitions the properties are stated with *)

\* the dotted path of a sequence of components
Dotted(parts) == CHOOSE p \in DOMAIN SplitTable : SplitTable[p] = parts

IsProperPrefix(q, parts) == Len(q) < Len(parts) /\ SubSeq(parts, 1, Len(q)) = q

\* source k of the load defines a leaf at parts
Defines(k, parts) == \E l \in merged[k].leaves : l[1] = parts
Given(k, parts) == (CHOOSE l \in merged[k].leaves : l[1] = parts)[2]
DefinedPaths == UNION {{l[1] : l \in merged[k].leaves} : k \in 1..Len(merged)}
LastDefining(parts) ==
    CHOOSE k \in 1..Len(merged) :
        Defines(k, parts) /\ \A j \in (k + 1)..Len(merged) : ~Defines(j, parts)

\* the value a source gives: a string stands for what the URI resolver makes of it
Resolved(v) ==
    IF v.kind = "str" THEN parse_uri(v.s, osenv, files).value
    ELSE IF v.kind = "attr"
    THEN IF v.value.kind = "str" THEN parse_uri(v.value.s, osenv, files).value
         ELSE v.value
    ELSE v
ValueOfLast(parts) ==
    LET k == LastDefining(parts)
    IN  IF merged[k].source = "migration" THEN Given(k, parts)
        ELSE Resolved(Given(k, parts))

\* a source merged with or after the last one defining parts defines a leaf above it
Overridden(parts) ==
    \E j \in LastDefining(parts)..Len(merged) :
        \E l \in merged[j].leaves : IsProperPrefix(l[1], parts)
\* the migration moved the leaf at parts to its replacement
Moved(parts) ==
    \E i \in 1..Len(migrated) : split(DEPRECATIONS[migrated[i]][1]) = parts

LoadCompleted == pc = "ready" /\ nops = 0 /\ patches = <<>> /\ last = NoOp

C3_MigrationAsStated ==
    LoadCompleted =>
        \A i \in 1..Len(DEPRECATIONS) :
            LET old == DEPRECATIONS[i][1]
                new == DEPRECATIONS[i][2]
                X == get(premigration, old, UNSET)
                parent == get_path_walk(config, SubSeq(split(old), 1, Len(split(old)) - 1),
                                        1, UNSET)
            IN  (X.exc = "" /\ X.val # UNSET) =>
                    /\ get(config, old, UNSET) = Ret(UNSET)
                    /\ get(config, new, UNSET) = Ret(X.val)
                    /\ parent # Ret(EmptyDict)

\* C9 as stated: a file of the search path that cannot be opened for lack of
\* permission leaves the tree as it was and the load goes on; a file that is not
\* YAML ends the load with ImproperlyConfigured and leaves the tree as it was.
C9_FileErrorsAsStated ==
    [][(pc = "search" /\ idx <= Len(candidates(files, osenv))
            /\ is_file(files, candidates(files, osenv)[idx])) =>
        LET f == files[candidates(files, osenv)[idx]]
        IN  /\ ~f.readable => (config' = config /\ pc' # "failed")
            /\ (f.readable /\ safe_load(f.text).exc # "") =>
                   (config' = config /\ pc' = "failed" /\ error' = "ImproperlyConfigured")
      ]_vars

\* the lookup the specification describes: the default as soon as a component is
\* absent or the current node is not a mapping, else what is stored
RECURSIVE Lookup(_, _, _, _)
Lookup(node, parts, i, default) ==
    IF i > Len(parts) THEN node
    ELSE IF node.kind # "dict" \/ ~DictHas(node, parts[i]) THEN default
    ELSE Lookup(DictGet(node, parts[i]), parts, i + 1, default)

\* a Value Cell lies on the path before its last component
LeafAbove(node, parts) ==
    \E n \in 1..(Len(parts) - 1) :
        Lookup(node, SubSeq(parts, 1, n), 1, PyNone).kind = "attr"

Defaults == {PyNone, PyInt(5)}
Scalar(v) == v.kind \in {"none", "bool", "int", "str"}

\* C2 as stated: set(path, v) of a scalar v never fails, and get(path) then reads v,
\* whatever the path or its prefixes held.
C2_SetThenGetAsStated ==
    (pc = "ready" /\ last.op = "set" /\ Scalar(last.value)) =>
        (last.exc = "" /\ get(config, last.path, UNSET) = Ret(last.value))

C5_LookupAsStated ==
    pc = "ready" =>
        \A path \in OpPaths, d \in Defaults :
            /\ get_path_from_dict(config, path, d) = Ret(Lookup(config, split(path), 1, d))
            /\ LeafAbove(config, split(path)) => get(config, path, d) = Ret(d)

\* C6 as stated: get_int never raises: whatever value get obtains, it returns the
\* value coerced to an integer, or the default when the value cannot be coerced.
C6_GetIntAsStated ==
    pc = "ready" =>
        \A path \in OpPaths :
            LET got == get(config, path, PyInt(5))
                n == get_int(config, path, PyInt(5))
            IN  got.exc = "" =>
                    /\ n.exc = ""
                    /\ n.val = (CASE got.val.kind = "int" -> got.val
                                  [] got.val.kind = "bool" ->
                                       PyInt(IF got.val.b THEN 1 ELSE 0)
                                  [] got.val.kind = "str" /\ got.val.s \in DOMAIN IntTable ->
                                       PyInt(IntTable[got.val.s])
                                  [] OTHER -> PyInt(5))

\* the strings equal to "true" when case is ignored
TrueStrings == {"true", "True", "TRUE"}

\* C7 as stated: get_bool is True exactly when get obtains a string equal to "true"
\* ignoring case, and False for every other value, booleans included.
C7_GetBoolAsStated ==
    pc = "ready" =>
        \A path \in OpPaths, d \in {PyBool(FALSE), PyBool(TRUE)} :
            LET got == get(config, path, d)
            IN  got.exc = "" =>
                    get_bool(config, path, d)
                        = Ret(PyBool(got.val.kind = "str" /\ got.val.s \in TrueStrings))

\* C7, amended: get_bool is True exactly when get obtains the boolean True or a
\* string equal to "true" ignoring case, and False for every other value.
C7_GetBool ==
    pc = "ready" =>
        \A path \in OpPaths, d \in {PyBool(FALSE), PyBool(TRUE)} :
            LET got == get(config, path, d)
            IN  got.exc = "" =>
                    get_bool(config, path, d)
                        = Ret(PyBool(\/ got.val = PyBool(TRUE)
                                     \/ got.val.kind = "str" /\ got.val.s \in TrueStrings))

\* set has stored the boolean True, which get_bool reads as True, next to a path
\* read as False
C7_Witness ==
    /\ pc = "ready"
    /\ last.op = "set" /\ last.exc = "" /\ last.value = PyBool(TRUE)
    /\ get_bool(config, last.path, PyBool(FALSE)) = Ret(PyBool(TRUE))
    /\ \E path \in OpPaths : get_bool(config, path, PyBool(TRUE)) = Ret(PyBool(FALSE))

\* what an indirection string stands for now
CurrentValue(uri) ==
    LET url == urlparse(uri)
    IN  CASE url.scheme = "env" ->
               IF \E i \in 1..Len(osenv) : osenv[i][1] = url.netloc
               THEN (CHOOSE e \in {osenv[i] : i \in 1..Len(osenv)} : e[1] = url.netloc)[2]
               ELSE url.query
          [] url.scheme = "file" ->
               IF files[url.path].exists /\ files[url.path].readable
               THEN str_strip(files[url.path].text)
               ELSE url.query
          [] OTHER -> uri

\* the tree with the value of the cell at parts replaced
RECURSIVE WithValue(_, _, _, _)
WithValue(node, parts, i, value) ==
    IF i > Len(parts) THEN [node EXCEPT !.value = value]
    ELSE PyDict([k \in 1..Len(node.items) |->
                    IF node.items[k][1] = parts[i]
                    THEN <<parts[i], WithValue(node.items[k][2], parts, i + 1, value)>>
                    ELSE node.items[k]])

\* C8: refresh(path) of a cell of origin uri makes its value what its original
\* indirection string stands for now and changes nothing else, neither its origin
\* nor any other cell; refresh of a cell of another origin changes nothing.
C8_Refresh ==
    [][(last'.op = "refresh" /\ nops' = nops + 1) =>
        LET cell == Lookup(config, split(last'.path), 1, PyNone)
        IN  cell.kind = "attr" =>
                /\ last'.exc = ""
                /\ config' = IF cell.source_type = "uri"
                             THEN WithValue(config, split(last'.path), 1,
                                            PyStr(CurrentValue(cell.source.s)))
                             ELSE config
      ]_vars

\* a cell resolved from env://DB_PASS has been refreshed after the variable changed
C8_Witness ==
    /\ last.op = "refresh" /\ last.exc = ""
    /\ Lookup(config, split(last.path), 1, PyNone)
         = AttrRec(PyStr(RotatedEnv), "uri", PyStr("env://DB_PASS?fallback"))
    /\ last.before = Ret(PyStr("s3cret"))

\* every leaf is a Value Cell that holds no Value Cell, every other node a mapping
RECURSIVE WellFormed(_)
WellFormed(node) ==
    CASE node.kind = "dict" ->
           \A k \in 1..Len(node.items) : WellFormed(node.items[k][2])
      [] node.kind = "attr" -> node.value.kind # "attr"
      [] OTHER -> FALSE

\* C10 as stated: after the load and any public operations the tree is well formed,
\* and wrapping a Value Cell in a Value Cell fails and leaves the tree unchanged.
C10_WellFormedAsStated ==
    pc = "ready" =>
        /\ WellFormed(config)
        /\ \A path \in OpPaths :
              set(config, path, AttrRec(PyInt(7), "unspecified", PyNone))
                  = Raise("RuntimeError", config)

====
